---------------------------- MODULE Spec2Model ----------------------------
(***************************************************************************)
(* Model of @umituz/react-native-clipboard:                                *)
(*   - ClipboardUtils  (src/src/domain/entities/Clipboard.ts)              *)
(*   - ClipboardService and the useClipboard hook (src/src/index.ts)       *)
(*   - the expo-clipboard platform capability the service calls            *)
(*                                                                         *)
(* A JavaScript string is a sequence of one-character strings.  Messages   *)
(* that are never inspected character by character (error texts) are TLA+  *)
(* strings.  An optional value (string | null | undefined) is a record     *)
(* with a `some` flag.                                                     *)
(***************************************************************************)
EXTENDS Integers, Sequences, FiniteSets, TLC

(***************************************************************************)
(* Bounds and scaled constants                                             *)
(***************************************************************************)

\* CLIPBOARD_CONSTANTS.MAX_CONTENT_LENGTH is 10000 in the source; it is
\* scaled down so that truncation happens on the strings of the model.
MAX_CONTENT_LENGTH == 4

\* The preview length copyWithFeedback passes to formatForDisplay is 50 in
\* the source; scaled down likewise.
PREVIEW_LENGTH == 3

\* The delay of the feedback reset, 2000 ms, in ticks of 1000 ms.
FEEDBACK_DELAY == 2

\* Longest string the ClipboardUtils functions are applied to.
MaxStrLen == MAX_CONTENT_LENGTH + 2

\* Number of reset timers that may be pending at a time.
MaxTimers == 2

(***************************************************************************)
(* Strings                                                                 *)
(***************************************************************************)

Min(a, b) == IF a < b THEN a ELSE b

\* A subset of the code points String.prototype.trim removes.
WhiteSpace == {" ", "\t", "\n"}

\* String.prototype.substring(0, n)
substring(s, n) == SubSeq(s, 1, Min(n, Len(s)))

RECURSIVE trimStart(_)
trimStart(s) ==
  IF s = <<>> THEN <<>>
  ELSE IF Head(s) \in WhiteSpace THEN trimStart(Tail(s))
  ELSE s

RECURSIVE trimEnd(_)
trimEnd(s) ==
  IF s = <<>> THEN <<>>
  ELSE IF s[Len(s)] \in WhiteSpace THEN trimEnd(SubSeq(s, 1, Len(s) - 1))
  ELSE s

\* String.prototype.trim
trim(s) == trimEnd(trimStart(s))

\* Canonicalisation of a character under the regular expression flag i,
\* for the letters of the alphabet of the model.
Canonicalize(c) ==
  CASE c = "h" -> "H"
    [] c = "t" -> "T"
    [] c = "p" -> "P"
    [] c = "s" -> "S"
    [] c = "f" -> "F"
    [] c = "a" -> "A"
    [] c = "b" -> "B"
    [] OTHER -> c

\* One literal of the pattern matched against position i of the text.
MatchChar(text, i, c) ==
  /\ i <= Len(text)
  /\ Canonicalize(text[i]) = Canonicalize(c)

\* The same pattern without the i flag.
URL_PATTERN_test_caseSensitive(text) ==
  LET lit(i, c) == i <= Len(text) /\ text[i] = c
      rest(i) == lit(i, ":") /\ lit(i + 1, "/") /\ lit(i + 2, "/")
  IN  /\ lit(1, "h") /\ lit(2, "t") /\ lit(3, "t") /\ lit(4, "p")
      /\ ((lit(5, "s") /\ rest(6)) \/ rest(5))

\* CLIPBOARD_CONSTANTS.URL_PATTERN = /^https?:\/\//i tested on text:
\* anchored at the start, "http", an optional "s", then "://".
URL_PATTERN_test(text) ==
  /\ MatchChar(text, 1, "h")
  /\ MatchChar(text, 2, "t")
  /\ MatchChar(text, 3, "t")
  /\ MatchChar(text, 4, "p")
  /\ LET rest(i) == /\ MatchChar(text, i, ":")
                    /\ MatchChar(text, i + 1, "/")
                    /\ MatchChar(text, i + 2, "/")
     IN  \/ (MatchChar(text, 5, "s") /\ rest(6))
         \/ rest(5)

(***************************************************************************)
(* ClipboardUtils                                                          *)
(***************************************************************************)

TEXT == "text"
URL == "url"
EMPTY == "empty"
ClipboardContentType == {TEXT, URL, EMPTY}

isUrl(text) == URL_PATTERN_test(text)

detectContentType(text) ==
  IF Len(text) = 0 THEN EMPTY
  ELSE IF isUrl(text) THEN URL
  ELSE TEXT

isValidLength(text) == Len(text) <= MAX_CONTENT_LENGTH

\* truncation before the trim
sanitize_truncateFirst(text) == trim(substring(text, MAX_CONTENT_LENGTH))

sanitize(text) == substring(trim(text), MAX_CONTENT_LENGTH)

Ellipsis == <<".", ".", ".">>

formatForDisplay(text, maxLength) ==
  IF Len(text) <= maxLength THEN text
  ELSE substring(text, maxLength) \o Ellipsis

(***************************************************************************)
(* Optional values, thrown values                                          *)
(***************************************************************************)

NoStr == [some |-> FALSE, val |-> <<>>]
SomeStr(s) == [some |-> TRUE, val |-> s]

NoMsg == [some |-> FALSE, msg |-> ""]
SomeMsg(m) == [some |-> TRUE, msg |-> m]

\* a || fallback, for an optional message a: undefined and "" are falsy
OrElse(a, fallback) == IF a.some /\ a.msg # "" THEN a.msg ELSE fallback

\* What a platform call may throw: an Error carrying a message, an Error
\* with an empty message, or a value that is not an Error.
Thrown ==
  { [isError |-> TRUE,  message |-> "Permission denied"],
    [isError |-> TRUE,  message |-> ""],
    [isError |-> FALSE, message |-> ""] }

NoThrow == [isError |-> FALSE, message |-> ""]

\* error instanceof Error ? error.message : fallback
MessageOf(thrown, fallback) ==
  IF thrown.isError THEN thrown.message ELSE fallback

\* Which platform call of an operation throws (0: none), and what.
FaultsOf(nCalls) ==
  {[at |-> 0, thrown |-> NoThrow]} \cup
  {[at |-> k, thrown |-> t] : k \in 1..nCalls, t \in Thrown}

\* The faults of an operation that makes one platform call, or two.
Faults1 == FaultsOf(1)
Faults2 == FaultsOf(2)

(***************************************************************************)
(* The platform clipboard (expo-clipboard), as an in-memory clipboard.     *)
(* string: the text on the clipboard; url: the URL on it, if any;          *)
(* emptyHasString: whether this platform's has-string check answers true   *)
(* for an empty text (platforms differ).                                   *)
(***************************************************************************)

setStringAsync(p, s) == [p EXCEPT !.string = s, !.url = NoStr]
setUrlAsync(p, u) == [p EXCEPT !.string = u, !.url = SomeStr(u)]
getStringAsync(p) == p.string
hasStringAsync(p) == p.string # <<>> \/ p.emptyHasString
hasUrlAsync(p) == p.url.some
getUrlAsync(p) == p.url

(***************************************************************************)
(* ClipboardService.  Each operation maps the platform state, its argument *)
(* and the fault of the platform to its outcome and the new platform       *)
(* state.  rejected: the promise rejects instead of resolving.             *)
(***************************************************************************)

\* An outcome with every field at its default.
Outcome ==
  [ rejected |-> FALSE,      \* the returned promise rejected
    thrown   |-> NoThrow,    \* the value it rejected with
    threw    |-> FALSE,      \* a platform call threw during the operation
    success  |-> FALSE,      \* result.success, or the boolean returned
    isNull   |-> FALSE,      \* getContent returned null
    content  |-> NoStr,      \* result.content
    error    |-> NoMsg,      \* result.error
    type     |-> "none",     \* ClipboardContent.type
    message  |-> NoMsg,      \* copyWithFeedback: message (its fixed part)
    preview  |-> <<>>,       \* copyWithFeedback: message (the preview)
    calls    |-> <<>> ]      \* platform calls invoked, in order

Svc(out, p) == [out |-> out, plat |-> p]

ClipboardService_copyText_raw(p, text, f) ==
  IF f.at = 1
  THEN Svc([Outcome EXCEPT !.threw = TRUE,
                           !.calls = <<"setStringAsync">>,
                           !.error = SomeMsg(MessageOf(f.thrown, "Failed to copy"))], p)
  ELSE Svc([Outcome EXCEPT !.success = TRUE,
                           !.calls = <<"setStringAsync">>,
                           !.content = SomeStr(sanitize(text))],
           setStringAsync(p, text))

ClipboardService_copyText(p, text, f) ==
  LET sanitized == sanitize(text) IN
  IF f.at = 1
  THEN Svc([Outcome EXCEPT !.threw = TRUE,
                           !.calls = <<"setStringAsync">>,
                           !.error = SomeMsg(MessageOf(f.thrown, "Failed to copy"))], p)
  ELSE Svc([Outcome EXCEPT !.success = TRUE,
                           !.calls = <<"setStringAsync">>,
                           !.content = SomeStr(sanitized)],
           setStringAsync(p, sanitized))

\* the validation placed after the write
ClipboardService_copyUrl_writeFirst(p, url, f) ==
  IF f.at = 1
  THEN Svc([Outcome EXCEPT !.threw = TRUE,
                           !.calls = <<"setUrlAsync">>,
                           !.error = SomeMsg(MessageOf(f.thrown, "Failed to copy URL"))], p)
  ELSE IF ~isUrl(url)
  THEN Svc([Outcome EXCEPT !.calls = <<"setUrlAsync">>,
                           !.error = SomeMsg("Invalid URL format")],
           setUrlAsync(p, url))
  ELSE Svc([Outcome EXCEPT !.success = TRUE,
                           !.calls = <<"setUrlAsync">>,
                           !.content = SomeStr(url)],
           setUrlAsync(p, url))

ClipboardService_copyUrl(p, url, f) ==
  IF ~isUrl(url)
  THEN Svc([Outcome EXCEPT !.error = SomeMsg("Invalid URL format")], p)
  ELSE IF f.at = 1
  THEN Svc([Outcome EXCEPT !.threw = TRUE,
                           !.calls = <<"setUrlAsync">>,
                           !.error = SomeMsg(MessageOf(f.thrown, "Failed to copy URL"))], p)
  ELSE Svc([Outcome EXCEPT !.success = TRUE,
                           !.calls = <<"setUrlAsync">>,
                           !.content = SomeStr(url)],
           setUrlAsync(p, url))

ClipboardService_getText(p, f) ==
  IF f.at = 1
  THEN Svc([Outcome EXCEPT !.threw = TRUE,
                           !.calls = <<"hasStringAsync">>,
                           !.error = SomeMsg(MessageOf(f.thrown, "Failed to read clipboard"))], p)
  ELSE IF ~hasStringAsync(p)
  THEN Svc([Outcome EXCEPT !.calls = <<"hasStringAsync">>,
                           !.error = SomeMsg("Clipboard is empty")], p)
  ELSE IF f.at = 2
  THEN Svc([Outcome EXCEPT !.threw = TRUE,
                           !.calls = <<"hasStringAsync", "getStringAsync">>,
                           !.error = SomeMsg(MessageOf(f.thrown, "Failed to read clipboard"))], p)
  ELSE Svc([Outcome EXCEPT !.success = TRUE,
                           !.calls = <<"hasStringAsync", "getStringAsync">>,
                           !.content = SomeStr(getStringAsync(p))], p)

ClipboardService_getUrl(p, f) ==
  IF f.at = 1
  THEN Svc([Outcome EXCEPT !.threw = TRUE,
                           !.calls = <<"hasUrlAsync">>,
                           !.error = SomeMsg(MessageOf(f.thrown, "Failed to read URL"))], p)
  ELSE IF ~hasUrlAsync(p)
  THEN Svc([Outcome EXCEPT !.calls = <<"hasUrlAsync">>,
                           !.error = SomeMsg("No URL in clipboard")], p)
  ELSE IF f.at = 2
  THEN Svc([Outcome EXCEPT !.threw = TRUE,
                           !.calls = <<"hasUrlAsync", "getUrlAsync">>,
                           !.error = SomeMsg(MessageOf(f.thrown, "Failed to read URL"))], p)
  ELSE Svc([Outcome EXCEPT !.success = TRUE,
                           !.calls = <<"hasUrlAsync", "getUrlAsync">>,
                           !.content = SomeStr(IF getUrlAsync(p).some
                                               THEN getUrlAsync(p).val
                                               ELSE <<>>)], p)

\* without the try/catch
ClipboardService_hasContent_noCatch(p, f) ==
  IF f.at = 1
  THEN Svc([Outcome EXCEPT !.threw = TRUE, !.rejected = TRUE,
                           !.thrown = f.thrown,
                           !.calls = <<"hasStringAsync">>], p)
  ELSE Svc([Outcome EXCEPT !.success = hasStringAsync(p),
                           !.calls = <<"hasStringAsync">>], p)

ClipboardService_hasContent(p, f) ==
  IF f.at = 1
  THEN Svc([Outcome EXCEPT !.threw = TRUE,
                           !.calls = <<"hasStringAsync">>], p)
  ELSE Svc([Outcome EXCEPT !.success = hasStringAsync(p),
                           !.calls = <<"hasStringAsync">>], p)

ClipboardService_hasUrl(p, f) ==
  IF f.at = 1
  THEN Svc([Outcome EXCEPT !.threw = TRUE,
                           !.calls = <<"hasUrlAsync">>], p)
  ELSE Svc([Outcome EXCEPT !.success = hasUrlAsync(p),
                           !.calls = <<"hasUrlAsync">>], p)

\* without the test of an empty read
ClipboardService_getContent_noEmptyTest(p, f) ==
  LET result == ClipboardService_getText(p, f).out IN
  IF ~result.success
  THEN Svc([Outcome EXCEPT !.isNull = TRUE, !.threw = result.threw,
                           !.calls = result.calls], p)
  ELSE Svc([Outcome EXCEPT !.success = TRUE,
                           !.type = detectContentType(result.content.val),
                           !.content = result.content,
                           !.calls = result.calls], p)

ClipboardService_getContent(p, f) ==
  LET result == ClipboardService_getText(p, f).out IN
  IF ~result.success \/ ~result.content.some \/ result.content.val = <<>>
  THEN Svc([Outcome EXCEPT !.isNull = TRUE, !.threw = result.threw,
                           !.calls = result.calls], p)
  ELSE Svc([Outcome EXCEPT !.success = TRUE,
                           !.type = detectContentType(result.content.val),
                           !.content = result.content,
                           !.calls = result.calls], p)

ClipboardService_clear(p, f) ==
  IF f.at = 1
  THEN Svc([Outcome EXCEPT !.threw = TRUE,
                           !.calls = <<"setStringAsync">>], p)
  ELSE Svc([Outcome EXCEPT !.success = TRUE,
                           !.calls = <<"setStringAsync">>],
           setStringAsync(p, <<>>))

ClipboardService_copyWithFeedback(p, text, f) ==
  LET r == ClipboardService_copyText(p, text, f)
      result == r.out
  IN  IF result.rejected
      THEN Svc([Outcome EXCEPT !.rejected = TRUE, !.thrown = result.thrown,
                               !.threw = result.threw,
                               !.calls = result.calls], r.plat)
      ELSE IF result.success
      THEN Svc([Outcome EXCEPT !.success = TRUE,
                               !.message = SomeMsg("Copied: "),
                               !.preview = formatForDisplay(text, PREVIEW_LENGTH),
                               !.calls = result.calls], r.plat)
      ELSE Svc([Outcome EXCEPT !.threw = result.threw,
                               !.message = SomeMsg(OrElse(result.error, "Failed to copy")),
                               !.calls = result.calls], r.plat)

(***************************************************************************)
(* State                                                                   *)
(***************************************************************************)

VARIABLES
  plat,        \* the platform clipboard: [string, url, emptyHasString]
  copiedText,  \* useClipboard state: string | null
  hasCopied,   \* useClipboard state: the feedback flag
  error,       \* useClipboard state: string | null
  timers,      \* pending setTimeout callbacks, oldest first: ticks left
  last,        \* the last completed ClipboardService call and its outcome
  prev,        \* the text of the call completed before it, if that call
               \* was a copyText that succeeded
  hook,        \* the last completed operation of the hook and its return
  utext,       \* ClipboardUtils: the string under test
  ures         \* ClipboardUtils: the function applied and its result

vars == <<plat, copiedText, hasCopied, error, timers, last, prev, hook,
          utext, ures>>

hookVars == <<copiedText, hasCopied, error, timers, hook>>
utilVars == <<utext, ures>>

(***************************************************************************)
(* Inputs                                                                  *)
(***************************************************************************)

BoundedSeq(S, n) == UNION {[1..k -> S] : k \in 0..n}

T_empty  == <<>>
T_padded == <<" ", "a", "b", " ">>
T_long   == <<"a", "b", " ", "a", "b", "a", "b">>
T_url    == <<"h", "t", "t", "p", ":", "/", "/", "a">>

\* The texts passed to the operations of the service and of the hook.
Texts == {T_empty, T_padded, T_long, T_url}

\* What the system clipboard may hold when the program starts.
InitialClipboard == {T_empty, T_padded}

\* Beginnings of strings that are, or nearly are, URLs.
UrlLikePrefixes ==
  { <<"h", "t", "t", "p", ":", "/", "/">>,
    <<"h", "t", "t", "p", "s", ":", "/", "/">>,
    <<"H", "T", "T", "P", ":", "/", "/">>,
    <<"H", "t", "T", "p", "S", ":", "/", "/">>,
    <<"h", "t", "t", "p", "s", "s", ":", "/", "/">>,
    <<"h", "t", "t", "p", ":", "/">>,
    <<"h", "t", "t", "p", "/", "/">>,
    <<"h", "t", "p", ":", "/", "/">>,
    <<"f", "t", "p", ":", "/", "/">>,
    <<" ", "h", "t", "t", "p", ":", "/", "/">>,
    <<"a", "h", "t", "t", "p", "s", ":", "/", "/">> }

\* The strings the ClipboardUtils functions are applied to.
UtilStrings ==
  BoundedSeq({"a", "b", " "}, MaxStrLen) \cup
  {pre \o suf : pre \in UrlLikePrefixes, suf \in BoundedSeq({"a", " "}, 1)}

(***************************************************************************)
(* Initial state: the state after useClipboard() is first rendered         *)
(***************************************************************************)

NoCall == [op |-> "none", arg |-> <<>>, out |-> Outcome]
NoHook == [op |-> "none", arg |-> <<>>, ok |-> FALSE]
NoUtil == [fn |-> "none", str |-> <<>>, bool |-> FALSE, type |-> "none"]

InitProgram ==
  /\ plat \in {[string |-> s, url |-> NoStr, emptyHasString |-> b] :
                 s \in InitialClipboard, b \in BOOLEAN}
  /\ copiedText = NoStr
  /\ hasCopied = FALSE
  /\ error = NoMsg
  /\ timers = <<>>
  /\ last = NoCall
  /\ prev = NoStr
  /\ hook = NoHook

Init ==
  /\ InitProgram
  /\ utext = <<>>
  /\ ures = NoUtil

(***************************************************************************)
(* Direct calls of ClipboardService                                        *)
(***************************************************************************)

ServiceOps ==
  {"copyText", "copyUrl", "getText", "getUrl", "hasContent", "hasUrl",
   "getContent", "clear", "copyWithFeedback"}

TakesText(op) == op \in {"copyText", "copyUrl", "copyWithFeedback"}

Dispatch(op, p, arg, f) ==
  CASE op = "copyText"         -> ClipboardService_copyText(p, arg, f)
    [] op = "copyUrl"          -> ClipboardService_copyUrl(p, arg, f)
    [] op = "getText"          -> ClipboardService_getText(p, f)
    [] op = "getUrl"           -> ClipboardService_getUrl(p, f)
    [] op = "hasContent"       -> ClipboardService_hasContent(p, f)
    [] op = "hasUrl"           -> ClipboardService_hasUrl(p, f)
    [] op = "getContent"       -> ClipboardService_getContent(p, f)
    [] op = "clear"            -> ClipboardService_clear(p, f)
    [] op = "copyWithFeedback" -> ClipboardService_copyWithFeedback(p, arg, f)

CallService(op, arg, f) ==
  LET r == Dispatch(op, plat, arg, f) IN
  /\ plat' = r.plat
  /\ last' = [op |-> op, arg |-> arg, out |-> r.out]
  /\ prev' = IF last.op = "copyText" /\ last.out.success
             THEN SomeStr(last.arg) ELSE NoStr
  /\ UNCHANGED <<hookVars, utilVars>>

(***************************************************************************)
(* useClipboard.  An operation of the hook is one step: its setError(null),*)
(* the service call it awaits (with the platform calls of that call) and   *)
(* the state updates that follow.  A setTimeout callback is a step of its  *)
(* own (FireTimer).                                                        *)
(***************************************************************************)

\* setTimeout(() => setHasCopied(false), 2000) replacing the pending resets
ScheduleReset_restart(ts) == <<FEEDBACK_DELAY>>

\* the setTimeout left out
ScheduleReset_dropped(ts) == ts

\* setTimeout(() => setHasCopied(false), 2000)
ScheduleReset(ts) == Append(ts, FEEDBACK_DELAY)

Called(op, arg, r) ==
  /\ plat' = r.plat
  /\ last' = [op |-> op, arg |-> arg, out |-> r.out]
  /\ prev' = IF last.op = "copyText" /\ last.out.success
             THEN SomeStr(last.arg) ELSE NoStr
  /\ UNCHANGED utilVars

Returned(op, arg, ok) == hook' = [op |-> op, arg |-> arg, ok |-> ok]

\* The three state updates of a successful copy-class operation.
CopySucceeded(text) ==
  /\ Len(timers) < MaxTimers
  /\ error' = NoMsg
  /\ copiedText' = SomeStr(text)
  /\ hasCopied' = TRUE
  /\ timers' = ScheduleReset(timers)

\* setError(null) followed by setError(message)
Failed(message) ==
  /\ error' = SomeMsg(message)
  /\ UNCHANGED <<copiedText, hasCopied, timers>>

useClipboard_copy(text, f) ==
  LET r == ClipboardService_copyText(plat, text, f)
      result == r.out
  IN  /\ Called("copyText", text, r)
      /\ IF result.rejected
         THEN /\ Failed(MessageOf(result.thrown, "Failed to copy"))
              /\ Returned("copy", text, FALSE)
         ELSE IF result.success
         THEN /\ CopySucceeded(text)
              /\ Returned("copy", text, TRUE)
         ELSE /\ Failed(OrElse(result.error, "Failed to copy"))
              /\ Returned("copy", text, FALSE)

useClipboard_copyUrl(url, f) ==
  LET r == ClipboardService_copyUrl(plat, url, f)
      result == r.out
  IN  /\ Called("copyUrl", url, r)
      /\ IF result.rejected
         THEN /\ Failed(MessageOf(result.thrown, "Failed to copy URL"))
              /\ Returned("copyUrl", url, FALSE)
         ELSE IF result.success
         THEN /\ CopySucceeded(url)
              /\ Returned("copyUrl", url, TRUE)
         ELSE /\ Failed(OrElse(result.error, "Failed to copy URL"))
              /\ Returned("copyUrl", url, FALSE)

useClipboard_paste(f) ==
  LET r == ClipboardService_getText(plat, f)
      result == r.out
  IN  /\ Called("getText", <<>>, r)
      /\ IF result.rejected
         THEN /\ Failed(MessageOf(result.thrown, "Failed to paste"))
              /\ Returned("paste", <<>>, FALSE)
         ELSE IF result.success /\ result.content.some /\ result.content.val # <<>>
         THEN /\ error' = NoMsg
              /\ UNCHANGED <<copiedText, hasCopied, timers>>
              /\ Returned("paste", <<>>, TRUE)
         ELSE /\ Failed(OrElse(result.error, "Clipboard is empty"))
              /\ Returned("paste", <<>>, FALSE)

useClipboard_getContent(f) ==
  LET r == ClipboardService_getContent(plat, f)
      result == r.out
  IN  /\ Called("getContent", <<>>, r)
      /\ IF result.rejected
         THEN /\ Failed(MessageOf(result.thrown, "Failed to read clipboard"))
              /\ Returned("getContent", <<>>, FALSE)
         ELSE /\ error' = NoMsg
              /\ UNCHANGED <<copiedText, hasCopied, timers>>
              /\ Returned("getContent", <<>>, ~result.isNull)

useClipboard_hasContent(f) ==
  LET r == ClipboardService_hasContent(plat, f)
      result == r.out
  IN  /\ Called("hasContent", <<>>, r)
      /\ UNCHANGED <<error, copiedText, hasCopied, timers>>
      /\ Returned("hasContent", <<>>, ~result.rejected /\ result.success)

useClipboard_hasUrl(f) ==
  LET r == ClipboardService_hasUrl(plat, f)
      result == r.out
  IN  /\ Called("hasUrl", <<>>, r)
      /\ UNCHANGED <<error, copiedText, hasCopied, timers>>
      /\ Returned("hasUrl", <<>>, ~result.rejected /\ result.success)

useClipboard_clear(f) ==
  LET r == ClipboardService_clear(plat, f)
      success == r.out.success
  IN  /\ Called("clear", <<>>, r)
      /\ error' = NoMsg
      /\ IF ~r.out.rejected /\ success
         THEN /\ copiedText' = NoStr
              /\ hasCopied' = FALSE
              /\ UNCHANGED timers
              /\ Returned("clear", <<>>, TRUE)
         ELSE /\ UNCHANGED <<copiedText, hasCopied, timers>>
              /\ Returned("clear", <<>>, FALSE)

useClipboard_copyWithFeedback(text, f) ==
  LET r == ClipboardService_copyWithFeedback(plat, text, f)
      result == r.out
  IN  /\ Called("copyWithFeedback", text, r)
      /\ IF result.rejected
         THEN /\ Failed(MessageOf(result.thrown, "Failed to copy"))
              /\ Returned("copyWithFeedback", text, FALSE)
         ELSE IF result.success
         THEN /\ CopySucceeded(text)
              /\ Returned("copyWithFeedback", text, TRUE)
         ELSE /\ Failed(result.message.msg)
              /\ Returned("copyWithFeedback", text, FALSE)

(***************************************************************************)
(* Time and the reset timers                                               *)
(***************************************************************************)

\* One tick of the clock: every pending timer comes one tick closer.
Tick ==
  /\ \E i \in 1..Len(timers) : timers[i] > 0
  /\ timers' = [i \in 1..Len(timers) |->
                  IF timers[i] > 0 THEN timers[i] - 1 ELSE 0]
  /\ UNCHANGED <<plat, copiedText, hasCopied, error, last, prev, hook, utilVars>>

\* The oldest timer is due: () => setHasCopied(false) runs.
FireTimer ==
  /\ timers # <<>>
  /\ Head(timers) = 0
  /\ timers' = Tail(timers)
  /\ hasCopied' = FALSE
  /\ UNCHANGED <<plat, copiedText, error, last, prev, hook, utilVars>>

(***************************************************************************)
(* The program                                                             *)
(***************************************************************************)

NArgs(op) == IF TakesText(op) THEN Texts ELSE {<<>>}
NCalls(op) == IF op \in {"getText", "getUrl", "getContent"} THEN 2 ELSE 1

Next ==
  \/ \E text \in Texts, f \in Faults1 : useClipboard_copy(text, f)
  \/ \E url \in Texts, f \in Faults1 : useClipboard_copyUrl(url, f)
  \/ \E f \in Faults2 : useClipboard_paste(f)
  \/ \E f \in Faults2 : useClipboard_getContent(f)
  \/ \E f \in Faults1 : useClipboard_hasContent(f)
  \/ \E f \in Faults1 : useClipboard_hasUrl(f)
  \/ \E f \in Faults1 : useClipboard_clear(f)
  \/ \E text \in Texts, f \in Faults1 : useClipboard_copyWithFeedback(text, f)
  \/ Tick
  \/ FireTimer

\* The hook, the service under it, the platform and the timers.
Spec == Init /\ [][Next]_vars

\* Every scheduled timer eventually fires.
FairSpec == Spec /\ WF_vars(Tick) /\ WF_vars(FireTimer)

NextService ==
  \E op \in ServiceOps :
    \E arg \in NArgs(op), f \in FaultsOf(NCalls(op)) : CallService(op, arg, f)

\* ClipboardService called directly, without the hook.
SpecService == Init /\ [][NextService]_vars

(***************************************************************************)
(* ClipboardUtils applied to bounded strings                               *)
(***************************************************************************)

InitUtils ==
  /\ InitProgram
  /\ utext \in UtilStrings
  /\ ures = NoUtil

ApplySanitize ==
  /\ ures' = [NoUtil EXCEPT !.fn = "sanitize", !.str = sanitize(utext)]
  /\ UNCHANGED <<plat, hookVars, last, prev, utext>>

ApplyIsUrl ==
  /\ ures' = [NoUtil EXCEPT !.fn = "isUrl", !.bool = isUrl(utext)]
  /\ UNCHANGED <<plat, hookVars, last, prev, utext>>

ApplyDetectContentType ==
  /\ ures' = [NoUtil EXCEPT !.fn = "detectContentType",
                            !.type = detectContentType(utext)]
  /\ UNCHANGED <<plat, hookVars, last, prev, utext>>

ApplyIsValidLength ==
  /\ ures' = [NoUtil EXCEPT !.fn = "isValidLength",
                            !.bool = isValidLength(utext)]
  /\ UNCHANGED <<plat, hookVars, last, prev, utext>>

ApplyFormatForDisplay ==
  /\ ures' = [NoUtil EXCEPT !.fn = "formatForDisplay",
                            !.str = formatForDisplay(utext, PREVIEW_LENGTH)]
  /\ UNCHANGED <<plat, hookVars, last, prev, utext>>

NextUtils ==
  \/ ApplySanitize
  \/ ApplyIsUrl
  \/ ApplyDetectContentType
  \/ ApplyIsValidLength
  \/ ApplyFormatForDisplay

SpecUtils == InitUtils /\ [][NextUtils]_vars

(***************************************************************************)
(* Properties                                                              *)
(***************************************************************************)

CopyOps == {"copy", "copyUrl", "copyWithFeedback"}

\* C1: after copy(text) on the hook succeeds, copiedText is the sanitized
\* form of text, the content copyText wrote to the platform clipboard.
C1_CopiedTextIsSanitized ==
  (hook.op = "copy" /\ hook.ok) =>
    /\ copiedText = SomeStr(sanitize(hook.arg))
    /\ copiedText = last.out.content

\* C2 as stated: copyText(text) followed immediately by getText(), with no
\* failing platform call, makes getText succeed with sanitize(text), for
\* every text.
C2_RoundTripEveryText ==
  (last.op = "getText" /\ ~last.out.threw /\ prev.some) =>
    /\ last.out.success
    /\ last.out.content = SomeStr(sanitize(prev.val))

\* C2: copyText(text) followed immediately by getText(), with no failing
\* platform call: when sanitize(text) is not empty, getText succeeds with
\* content sanitize(text), which is the raw input only if the input was
\* already sanitized; when sanitize(text) is empty, getText either succeeds
\* with the empty string or fails with "Clipboard is empty".
C2_RoundTrip ==
  (last.op = "getText" /\ ~last.out.threw /\ prev.some) =>
    IF sanitize(prev.val) # <<>>
    THEN /\ last.out.success
         /\ last.out.content = SomeStr(sanitize(prev.val))
    ELSE \/ last.out.success /\ last.out.content = SomeStr(<<>>)
         \/ ~last.out.success /\ last.out.error = SomeMsg("Clipboard is empty")

C2_Witness ==
  /\ last.op = "getText"
  /\ prev.some
  /\ prev.val # sanitize(prev.val)
  /\ last.out.success
  /\ last.out.content = SomeStr(sanitize(prev.val))

\* C3: copyUrl(url) with isUrl(url) false fails with "Invalid URL format",
\* invokes no platform call and leaves the platform clipboard unchanged.
C3_InvalidUrlRejected ==
  [][ (last'.op = "copyUrl" /\ ~isUrl(last'.arg)) =>
        /\ ~last'.out.success
        /\ last'.out.error = SomeMsg("Invalid URL format")
        /\ last'.out.calls = <<>>
        /\ plat' = plat ]_vars

C3_Witness ==
  /\ last.op = "copyUrl"
  /\ ~isUrl(last.arg)
  /\ last.arg # <<>>
  /\ last.out.error = SomeMsg("Invalid URL format")
  /\ plat.string # last.arg

\* C4: every ClipboardService operation resolves, whichever platform call
\* throws: the operations returning a result resolve to success = false
\* with an error message, getContent to null, and hasContent, hasUrl and
\* clear to false.
C4_ServiceIsTotal ==
  /\ ~last.out.rejected
  /\ last.out.threw =>
       /\ ~last.out.success
       /\ last.op \in {"copyText", "copyUrl", "getText", "getUrl"}
            => last.out.error.some
       /\ last.op = "copyWithFeedback"
            => last.out.message.some /\ last.out.message.msg # "Copied: "
       /\ last.op = "getContent" => last.out.isNull

C4_Witness ==
  /\ last.op = "getContent"
  /\ last.out.threw
  /\ last.out.calls = <<"hasStringAsync", "getStringAsync">>
  /\ last.out.isNull

\* A step of the hook, as opposed to a step of the clock or of a timer.
HookStep == ~(Tick \/ FireTimer)

\* C5: when a copy-class operation of the hook succeeds hasCopied is true
\* right afterwards; hasCopied is never true while no reset timer is
\* pending; and, every timer eventually firing, either copies keep
\* succeeding or hasCopied becomes false and stays false.
C5_FeedbackFlag ==
  /\ [](hasCopied => timers # <<>>)
  /\ [][ (HookStep /\ hook'.op \in CopyOps /\ hook'.ok) => hasCopied' ]_vars
  /\ ([]<><<Len(timers') > Len(timers)>>_vars \/ <>[](~hasCopied))

C5_Witness ==
  /\ hook.op \in CopyOps
  /\ hook.ok
  /\ ~hasCopied
  /\ timers = <<>>

\* C6: after any operation of the hook, the error field is null if the
\* operation succeeded and non-null if it failed.
C6_ErrorTracksOutcome ==
  hook.op # "none" => (hook.ok <=> ~error.some)

\* t is s without its leading and trailing whitespace.
IsTrimOf(t, s) ==
  \E i \in 1..(Len(s) + 1) : \E j \in 0..Len(s) :
    /\ t = SubSeq(s, i, j)
    /\ \A k \in 1..Len(s) : (k < i \/ k > j) => s[k] \in WhiteSpace
    /\ t # <<>> => (t[1] \notin WhiteSpace /\ t[Len(t)] \notin WhiteSpace)

\* t is the first n characters of s (all of s if it is shorter).
IsPrefixOf(t, s, n) ==
  /\ Len(t) = Min(n, Len(s))
  /\ \A k \in 1..Len(t) : t[k] = s[k]

\* C7 as stated: for every s longer than MAX_CONTENT_LENGTH, sanitize(s)
\* has length exactly MAX_CONTENT_LENGTH and is the first MAX_CONTENT_LENGTH
\* characters of trim(s); and sanitize(s) is never longer than that.
C7_LongInputFillsLimit ==
  ures.fn = "sanitize" =>
    /\ Len(ures.str) <= MAX_CONTENT_LENGTH
    /\ Len(utext) > MAX_CONTENT_LENGTH =>
         /\ Len(ures.str) = MAX_CONTENT_LENGTH
         /\ \E i \in 1..(Len(utext) + 1) : \E j \in 0..Len(utext) :
              /\ IsTrimOf(SubSeq(utext, i, j), utext)
              /\ IsPrefixOf(ures.str, SubSeq(utext, i, j), MAX_CONTENT_LENGTH)

\* C7: for every s, sanitize(s) is the first MAX_CONTENT_LENGTH characters
\* of trim(s) and is never longer than MAX_CONTENT_LENGTH; its length is
\* exactly MAX_CONTENT_LENGTH for every s whose trimmed form is longer than
\* MAX_CONTENT_LENGTH.
C7_SanitizeTrimsThenTruncates ==
  ures.fn = "sanitize" =>
    /\ Len(ures.str) <= MAX_CONTENT_LENGTH
    /\ \E i \in 1..(Len(utext) + 1) : \E j \in 0..Len(utext) :
         LET t == SubSeq(utext, i, j) IN
         /\ IsTrimOf(t, utext)
         /\ IsPrefixOf(ures.str, t, MAX_CONTENT_LENGTH)
         /\ Len(t) > MAX_CONTENT_LENGTH => Len(ures.str) = MAX_CONTENT_LENGTH

C7_Witness ==
  /\ ures.fn = "sanitize"
  /\ Len(utext) = MAX_CONTENT_LENGTH + 2
  /\ utext[1] \in WhiteSpace
  /\ utext[2] \notin WhiteSpace
  /\ Len(ures.str) = MAX_CONTENT_LENGTH
  /\ ures.str[1] = utext[2]

\* Lower case of the letters of the alphabet of the model.
toLowerCase(c) ==
  CASE c = "H" -> "h"
    [] c = "T" -> "t"
    [] c = "P" -> "p"
    [] c = "S" -> "s"
    [] OTHER -> c

\* s begins with the lower-case word w, compared case-insensitively.
BeginsWith(s, w) ==
  /\ Len(s) >= Len(w)
  /\ [k \in 1..Len(w) |-> toLowerCase(s[k])] = w

BeginsWithHttp(s) ==
  \/ BeginsWith(s, <<"h", "t", "t", "p", ":", "/", "/">>)
  \/ BeginsWith(s, <<"h", "t", "t", "p", "s", ":", "/", "/">>)

\* C8: detectContentType(s) is EMPTY iff s has length 0, URL iff s begins
\* with "http://" or "https://" compared case-insensitively, and TEXT in
\* every other case; the outcomes are exclusive and exhaustive.
C8_DetectContentType ==
  ures.fn = "detectContentType" =>
    /\ ures.type \in ClipboardContentType
    /\ ures.type = EMPTY <=> Len(utext) = 0
    /\ ures.type = URL <=> BeginsWithHttp(utext)
    /\ ures.type = TEXT <=> (Len(utext) # 0 /\ ~BeginsWithHttp(utext))

C8_Witness ==
  /\ ures.fn = "detectContentType"
  /\ ures.type = URL
  /\ utext[1] = "H"
  /\ utext[5] = "S"

C10_TimersIndependent ==
  [][ \/ timers' = timers
      \/ /\ hook'.op \in CopyOps /\ hook'.ok /\ hasCopied'
         /\ timers' = Append(timers, FEEDBACK_DELAY)
      \/ /\ Len(timers') = Len(timers)
         /\ \A i \in 1..Len(timers) :
              timers'[i] = (IF timers[i] > 0 THEN timers[i] - 1 ELSE 0)
         /\ hasCopied' = hasCopied
      \/ /\ timers # <<>>
         /\ timers[1] = 0
         /\ timers' = Tail(timers)
         /\ ~hasCopied' ]_vars

\* The reset of an earlier copy has switched the flag off while the reset
\* of the latest copy still has time to run.
C10_Witness ==
  /\ hook.op \in CopyOps
  /\ hook.ok
  /\ ~hasCopied
  /\ Len(timers) = 1
  /\ timers[1] > 0

============================================================================
